---- MODULE Spec2Model ----
(***************************************************************************)
(* Layered breadth-first reachability ("degrees of separation") and the    *)
(* size-capped subgraph sampler of leobardonm/7contactos.                  *)
(*                                                                         *)
(* Two programs of the repository are modelled, one run of one of them per *)
(* behaviour (prog):                                                       *)
(*   "stepper"   src/7contactosmejorado.py, SevenDegreesModel.setup/step   *)
(*               driven by agentpy's Model.run (t, running, steps);        *)
(*   "animacion" src/anuimate_seven_degrees.py, animar: elegir_origen,     *)
(*               subgrafo_por_grados, construir_capas, dibujar_frame       *)
(*               (src/viz/animacion2.py holds the same four functions).    *)
(* The graph is the edge list as read from the file, in file order:        *)
(* networkx keeps nodes and neighbours in insertion order, and the         *)
(* breadth-first search visits them in that order.                         *)
(***************************************************************************)
EXTENDS Integers, Sequences, FiniteSets

\* ------------------------------------------------------------------ bounds
\* Node ids are 0 .. NumNodes-1.
NumNodes == 4
\* An edge list holds at most MaxEdges lines.
MaxEdges == 3
\* 'steps' (stepper) and MAX_GRADOS (animation) range over 0 .. MaxGrados.
MaxGrados == 3
\* max_nodos ranges up to MaxCap.
MaxCap == 3
\* The experiment runs NumRuns models (ITERATIONS in the code).
NumRuns == 2

\* SOURCE_ID = None: no requested origin.
None == -1

NodeIds == 0 .. (NumNodes - 1)
\* An id that is a node of no graph of the model.
AbsentId == NumNodes

\* Requested origins: none, an id in range, an id out of range.
SourceIds == { None, 0, AbsentId }

\* ------------------------------------------------------------------- state
VARIABLES
    prog,           \* which script runs: "stepper" or "animacion"
    pc,             \* position of the run
    G,              \* the loaded graph: its edge list, in file order
    source_id,      \* requested origin (p.source_id / SOURCE_ID), or None
    max_grados,     \* p.steps (stepper) / MAX_GRADOS (animation)
    max_nodos,      \* MAX_NODOS_VISTA (animation)
    nx_bfs,         \* the installed networkx: which breadth-first search
    \* --- SevenDegreesModel
    source,         \* self.source
    alcanzados,     \* self.alcanzados
    frontera,       \* self.frontera
    t,              \* self.t (stepper) / frame number (animation)
    running,        \* self.running
    log,            \* the recorded rows, one per t
    \* --- animar
    origen,         \* origen
    nodos_alcance,  \* the node list H is built from
    H,              \* the subgraph: [nodes, edges]
    dist,           \* dist_H, as the dict's items in insertion order
    capas,          \* capas, capas[d+1] in the model is capas[d] in the code
    descubiertos,   \* dibujar_frame: descubiertos
    frontera_t,     \* dibujar_frame: frontera
    edges_visibles, \* dibujar_frame: edges_visibles
    \* --- the experiment: several SevenDegreesModel runs on one graph
    G_CACHE,        \* _G_CACHE: [loaded, graph], graph an edge list
    runs            \* the runs' models: run i's pc, source, alcanzados, ...

vars == << prog, pc, G, source_id, max_grados, max_nodos, nx_bfs,
           source, alcanzados, frontera, t, running, log,
           origen, nodos_alcance, H, dist, capas,
           descubiertos, frontera_t, edges_visibles, G_CACHE, runs >>

expVars == << G_CACHE, runs >>
stepperVars == << source, alcanzados, frontera, running, log >>
animVars == << origen, nodos_alcance, H, dist, capas,
               descubiertos, frontera_t, edges_visibles >>
inputVars == << prog, G, source_id, max_grados, max_nodos, nx_bfs >>

\* ------------------------------------------------------------ the graph
\* An undirected edge "u v" of the file, written with u < v.
EdgePairs == { e \in NodeIds \X NodeIds : e[1] < e[2] }

\* File order of two lines: by first id, then by second id.
LineBefore(e, f) == e[1] < f[1] \/ (e[1] = f[1] /\ e[2] < f[2])

\* The lines of an edge set in ascending file order.
RECURSIVE Ascending(_)
Ascending(S) ==
    IF S = {} THEN << >>
    ELSE LET e == CHOOSE x \in S : \A y \in S \ { x } : LineBefore(x, y)
         IN << e >> \o Ascending(S \ { e })

Reverse(s) == [ i \in 1..Len(s) |-> s[Len(s) + 1 - i] ]

\* Edge lists: no duplicate line, at most MaxEdges lines, the lines in
\* ascending or in descending order.
EdgeLists ==
    UNION { { Ascending(S), Reverse(Ascending(S)) } :
            S \in { X \in SUBSET EdgePairs : Cardinality(X) <= MaxEdges } }

\* G.nodes(): the ids that occur in an edge.
GraphNodes(g) == { g[i][1] : i \in 1..Len(g) } \cup { g[i][2] : i \in 1..Len(g) }

\* G.number_of_nodes()
number_of_nodes(g) == Cardinality(GraphNodes(g))

\* G._adj[u]: u's neighbours in the order the edges were added.
RECURSIVE AdjFrom(_, _, _)
AdjFrom(g, u, i) ==
    IF i > Len(g) THEN << >>
    ELSE IF g[i][1] = u THEN << g[i][2] >> \o AdjFrom(g, u, i + 1)
    ELSE IF g[i][2] = u THEN << g[i][1] >> \o AdjFrom(g, u, i + 1)
    ELSE AdjFrom(g, u, i + 1)

Adj(g, u) == AdjFrom(g, u, 1)

\* G.neighbors(u), as a set.
neighbors(g, u) == { Adj(g, u)[i] : i \in 1..Len(Adj(g, u)) }

\* G.degree(u)
degree(g, u) == Len(Adj(g, u))

\* --------------------------------------------------- SevenDegreesModel
\* The origins setup may choose: the requested one when it is a node of G,
\* else any node (random.choice).
OrigenPosible(g, sid) ==
    IF sid # None /\ sid \in GraphNodes(g) THEN { sid } ELSE GraphNodes(g)

\* As Row, the origin not counted among the people reached.
RowSinOrigen(grado, reached, g) ==
    [ grado |-> grado,
      personas_conocidas |-> Cardinality(reached) - 1,
      fraccion_conocida |-> << Cardinality(reached) - 1, number_of_nodes(g) >> ]

\* One row of the model's log: grado, personas_conocidas, and
\* fraccion_conocida as the pair (numerator, denominator) of the division.
Row(grado, reached, g) ==
    [ grado |-> grado,
      personas_conocidas |-> Cardinality(reached),
      fraccion_conocida |-> << Cardinality(reached), number_of_nodes(g) >> ]

\* As NuevaFrontera without the test "v not in self.alcanzados".
NuevaFronteraSinFiltro(g, front, reached) ==
    UNION { neighbors(g, u) : u \in front }

\* step's loop: the neighbours of the frontier that are not yet reached.
NuevaFrontera(g, front, reached) ==
    { v \in UNION { neighbors(g, u) : u \in front } : v \notin reached }

\* As Para, the early stop left out.
ParaNunca(front) == FALSE

\* step, lines 75-76: stop when the new frontier is empty.
Para(front) == front = {}

\* _G_CACHE = None
NotLoaded == [ loaded |-> FALSE, graph |-> << >> ]

\* _load_graph_once: read the file when the cache is empty, else the cache.
load_graph_once(cache, file) ==
    IF ~cache.loaded THEN [ loaded |-> TRUE, graph |-> file ] ELSE cache

\* setup: self.G = _load_graph_once(GRAPH_PATH), the origin, the sets and
\* the first row; then agentpy's check of t >= steps.  random.choice of an
\* empty node list raises, the graph already in the cache.
Setup ==
    /\ prog = "stepper" /\ pc = "setup"
    /\ LET cache == load_graph_once(G_CACHE, G)
       IN /\ G_CACHE' = cache
          /\ IF OrigenPosible(cache.graph, source_id) = {}
             THEN /\ pc' = "crashed"
                  /\ UNCHANGED << stepperVars, t >>
             ELSE \E s \in OrigenPosible(cache.graph, source_id) :
                  /\ source' = s
                  /\ alcanzados' = { s }
                  /\ frontera' = { s }
                  /\ log' = << Row(0, { s }, cache.graph) >>
                  /\ running' = (t < max_grados)
                  /\ pc' = IF t < max_grados THEN "step" ELSE "end"
                  /\ UNCHANGED t
    /\ UNCHANGED << inputVars, runs, animVars >>

\* agentpy's sim_step: t += 1, step(), then the check of t >= steps.
\* self.G is the graph of the cache.
Step ==
    /\ prog = "stepper" /\ pc = "step" /\ running
    /\ LET nueva_frontera == NuevaFrontera(G_CACHE.graph, frontera, alcanzados)
           reached == alcanzados \cup nueva_frontera
           go == ~Para(nueva_frontera) /\ t + 1 < max_grados
       IN /\ t' = t + 1
          /\ frontera' = nueva_frontera
          /\ alcanzados' = reached
          /\ log' = Append(log, Row(t + 1, reached, G_CACHE.graph))
          /\ running' = go
          /\ pc' = IF go THEN "step" ELSE "end"
    /\ UNCHANGED << inputVars, expVars, animVars, source >>

\* ------------------------------------------------------------- animar
\* elegir_origen: the requested id when it is a node of G, else
\* random.choice over G's nodes.
elegir_origen(g, sid) ==
    IF sid # None /\ sid \in GraphNodes(g) THEN { sid } ELSE GraphNodes(g)

Range(s) == { s[i] : i \in 1..Len(s) }

\* The neighbour lists of the nodes of one level, in visiting order.
RECURSIVE VecinosDe(_, _)
VecinosDe(g, level) ==
    IF level = << >> THEN << >>
    ELSE Adj(g, Head(level)) \o VecinosDe(g, Tail(level))

\* The nodes of cands not seen before, each once, in order of first sight.
RECURSIVE Nuevos(_, _)
Nuevos(cands, seen) ==
    IF cands = << >> THEN << >>
    ELSE IF Head(cands) \in seen THEN Nuevos(Tail(cands), seen)
    ELSE << Head(cands) >> \o Nuevos(Tail(cands), seen \cup { Head(cands) })

\* The levels after `level`, while the last one is not empty and the cutoff
\* is not reached: items (node, level) in order of discovery.
RECURSIVE Levels(_, _, _, _, _)
Levels(g, nextlevel, seen, level, cutoff) ==
    IF nextlevel = << >> \/ ~(cutoff > level) THEN << >>
    ELSE LET found == Nuevos(VecinosDe(g, nextlevel), seen)
         IN [ i \in 1..Len(found) |-> << found[i], level + 1 >> ]
            \o Levels(g, found, seen \cup Range(found), level + 1, cutoff)

\* The searches of the networkx releases the scripts run with (no release
\* is pinned): "list" keeps each level as a list, "set" as a set.
NxBfs == { "list", "set" }

\* The iteration order of a set of node ids: by hash slot, which for ids
\* below the table size is ascending.
RECURSIVE SetOrder(_)
SetOrder(S) ==
    IF S = {} THEN << >>
    ELSE LET m == CHOOSE x \in S : \A y \in S : x <= y
         IN << m >> \o SetOrder(S \ { m })

\* The levels from `level` on with each level a set: the nodes of nextlevel
\* not seen before, in the set's order, while the cutoff allows and nodes
\* are left.
RECURSIVE LevelsSet(_, _, _, _, _)
LevelsSet(g, nextlevel, seen, level, cutoff) ==
    IF nextlevel = {} \/ ~(cutoff >= level) THEN << >>
    ELSE LET found == SetOrder(nextlevel \ seen)
             seen2 == seen \cup Range(found)
         IN [ i \in 1..Len(found) |-> << found[i], level >> ]
            \o (IF Cardinality(seen2) = number_of_nodes(g) THEN << >>
                ELSE LevelsSet(g, UNION { neighbors(g, v) : v \in Range(found) },
                               seen2, level + 1, cutoff))

\* nx.single_source_shortest_path_length(G, source, cutoff): the dict's
\* items (node, distance) in insertion order, by the search of kind.
single_source_shortest_path_length(kind, g, src, cutoff) ==
    IF kind = "set" THEN LevelsSet(g, { src }, {}, 0, cutoff)
    ELSE << << src, 0 >> >> \o Levels(g, << src >>, { src }, 0, cutoff)

\* A dict given by its items: keys in order, lookup.
Keys(d) == [ i \in 1..Len(d) |-> d[i][1] ]
Get(d, u) == CHOOSE i \in 1..Len(d) : d[i][1] = u
ValueOf(d, u) == d[Get(d, u)][2]

\* As KeyLess, the key's two parts swapped: (-degree, distance).
KeyLessGradoPrimero(g, d, u, v) ==
    \/ (0 - degree(g, u)) < (0 - degree(g, v))
    \/ degree(g, u) = degree(g, v) /\ ValueOf(d, u) < ValueOf(d, v)

\* As KeyLess, the degree left out of the key.
KeyLessSoloDist(g, d, u, v) == ValueOf(d, u) < ValueOf(d, v)

\* The sort key of subgrafo_por_grados, (dist[u], -deg_dict[u]): whether
\* u's key is less than v's.
KeyLess(g, d, u, v) ==
    \/ ValueOf(d, u) < ValueOf(d, v)
    \/ ValueOf(d, u) = ValueOf(d, v) /\ (0 - degree(g, u)) < (0 - degree(g, v))

\* sorted(nodos, key): stable, equal keys keep their order in nodos.
RECURSIVE sorted(_, _, _)
sorted(nodos, g, d) ==
    IF nodos = << >> THEN << >>
    ELSE LET m == CHOOSE i \in 1..Len(nodos) :
                    /\ \A j \in 1..Len(nodos) : ~KeyLess(g, d, nodos[j], nodos[i])
                    /\ \A j \in 1..(i - 1) : KeyLess(g, d, nodos[i], nodos[j])
             rest == SubSeq(nodos, 1, m - 1) \o SubSeq(nodos, m + 1, Len(nodos))
         IN << nodos[m] >> \o sorted(rest, g, d)

\* As SlicePrefix, one item too many.
SlicePrefixMasUno(s, k) ==
    SubSeq(s, 1, IF k + 1 > Len(s) THEN Len(s) ELSE k + 1)

\* Python's s[:k]: the first k items, or all but the last -k ones when k < 0.
SlicePrefix(s, k) ==
    LET n == Len(s)
        stop == IF k < 0 THEN (IF n + k < 0 THEN 0 ELSE n + k)
                ELSE (IF k > n THEN n ELSE k)
    IN SubSeq(s, 1, stop)

\* The node list subgrafo_por_grados keeps: all reached nodes, or the first
\* max_nodos of them by (distance, -degree) when there are more.
NodosAlcance(g, d, cap) ==
    IF Len(Keys(d)) > cap
    THEN SlicePrefix(sorted(Keys(d), g, d), cap)
    ELSE Keys(d)

\* G.subgraph(nodos).copy(): the nodes, and G's edges between them.
subgraph(g, nodos) ==
    [ nodes |-> nodos,
      edges |-> { e \in Range(g) : e[1] \in nodos /\ e[2] \in nodos } ]

\* {u: d for u, d in dist.items() if u in H}
SelectItems(d, nodos) == SelectSeq(d, LAMBDA item : item[1] \in nodos)

\* construir_capas: max_grados + 1 sets, node u in the set of its distance.
construir_capas(d, mg) ==
    [ k \in 1..(mg + 1) |->
        { d[i][1] : i \in { j \in 1..Len(d) : d[j][2] = k - 1 } } ]

\* As Descubiertos, with capas[:t].
DescubiertosSinCapaT(cs, f) ==
    UNION { cs[k] : k \in 1..Len(SlicePrefix(cs, f)) }

\* set().union(*capas[:t+1])
Descubiertos(cs, f) ==
    UNION { cs[k] : k \in 1..Len(SlicePrefix(cs, f + 1)) }

\* capas[t] if 0 <= t < len(capas) else set()
FronteraDe(cs, f) == IF 0 <= f /\ f < Len(cs) THEN cs[f + 1] ELSE {}

\* As EdgesVisibles, only the first end tested.
EdgesVisiblesUnaPunta(h, desc) == { e \in h.edges : e[1] \in desc }

\* The edges of H whose two ends are discovered.
EdgesVisibles(h, desc) ==
    { e \in h.edges : e[1] \in desc /\ e[2] \in desc }

\* animar, line 82.  random.choice of an empty node list raises.
ElegirOrigen ==
    /\ prog = "animacion" /\ pc = "elegir_origen"
    /\ IF elegir_origen(G, source_id) = {}
       THEN pc' = "crashed" /\ UNCHANGED origen
       ELSE /\ origen' \in elegir_origen(G, source_id)
            /\ pc' = "subgrafo"
    /\ UNCHANGED << inputVars, expVars, stepperVars, t, nodos_alcance, H, dist, capas,
                    descubiertos, frontera_t, edges_visibles >>

\* animar, line 83: H and dist_H.
SubgrafoPorGrados ==
    /\ prog = "animacion" /\ pc = "subgrafo"
    /\ LET d == single_source_shortest_path_length(nx_bfs, G, origen, max_grados)
           nodos == NodosAlcance(G, d, max_nodos)
       IN /\ nodos_alcance' = nodos
          /\ H' = subgraph(G, Range(nodos))
          /\ dist' = SelectItems(d, Range(nodos))
    /\ pc' = "capas"
    /\ UNCHANGED << inputVars, expVars, stepperVars, t, origen, capas,
                    descubiertos, frontera_t, edges_visibles >>

\* animar, line 85.
ConstruirCapas ==
    /\ prog = "animacion" /\ pc = "capas"
    /\ capas' = construir_capas(dist, max_grados)
    /\ pc' = "animar"
    /\ UNCHANGED << inputVars, expVars, stepperVars, t, origen, nodos_alcance, H, dist,
                    descubiertos, frontera_t, edges_visibles >>

\* One call of dibujar_frame by FuncAnimation: frames 0 .. MAX_GRADOS in
\* order, then again from 0 (repeat=True).  The percentage divides by H's
\* number of nodes, and raises when H is empty.
DibujarFrame ==
    /\ prog = "animacion" /\ pc \in { "animar", "frame" }
    /\ LET f == IF pc = "animar" THEN 0 ELSE (t + 1) % (max_grados + 1)
       IN IF Cardinality(H.nodes) = 0
          THEN /\ pc' = "crashed"
               /\ UNCHANGED << t, descubiertos, frontera_t, edges_visibles >>
          ELSE /\ t' = f
               /\ descubiertos' = Descubiertos(capas, f)
               /\ frontera_t' = FronteraDe(capas, f)
               /\ edges_visibles' = EdgesVisibles(H, Descubiertos(capas, f))
               /\ pc' = "frame"
    /\ UNCHANGED << inputVars, expVars, stepperVars, origen, nodos_alcance, H, dist, capas >>

\* ------------------------------------------------------- the experiment
\* ap.Experiment(SevenDegreesModel, sample, iterations=ITERATIONS): several
\* models, each with its own fields, on the graph of _G_CACHE.  The models'
\* setup and step calls are taken in any order.

\* A model before setup.
NewModel ==
    [ pc |-> "setup", source |-> None, alcanzados |-> {}, frontera |-> {},
      t |-> 0, running |-> TRUE, log |-> << >> ]

\* The model after setup with origin s on graph g, and agentpy's check of
\* t >= steps.
SetupModel(m, g, s, steps) ==
    [ pc |-> IF m.t < steps THEN "step" ELSE "end",
      source |-> s, alcanzados |-> { s }, frontera |-> { s },
      t |-> m.t, running |-> (m.t < steps),
      log |-> << Row(0, { s }, g) >> ]

\* The model after one more sim_step: t += 1, step(), the check of t >= steps.
StepModel(m, g, steps) ==
    LET nueva_frontera == NuevaFrontera(g, m.frontera, m.alcanzados)
        reached == m.alcanzados \cup nueva_frontera
        go == ~Para(nueva_frontera) /\ m.t + 1 < steps
    IN [ pc |-> IF go THEN "step" ELSE "end",
         source |-> m.source, alcanzados |-> reached, frontera |-> nueva_frontera,
         t |-> m.t + 1, running |-> go,
         log |-> Append(m.log, Row(m.t + 1, reached, g)) ]

\* As StepOf, alcanzados a set all the models share.
StepOfCompartido(rs, i, g, steps) ==
    LET m == StepModel(rs[i], g, steps)
    IN [ j \in DOMAIN rs |->
           IF j = i THEN m
           ELSE [ rs[j] EXCEPT !.alcanzados = @ \cup m.frontera ] ]

\* step of model i: only its own fields change.
StepOf(rs, i, g, steps) == [ rs EXCEPT ![i] = StepModel(rs[i], g, steps) ]

\* setup of model i.  random.choice of an empty node list raises.
SetupRun(i) ==
    /\ prog = "experimento" /\ runs[i].pc = "setup"
    /\ LET cache == load_graph_once(G_CACHE, G)
       IN /\ G_CACHE' = cache
          /\ IF OrigenPosible(cache.graph, source_id) = {}
             THEN runs' = [ runs EXCEPT ![i].pc = "crashed" ]
             ELSE \E s \in OrigenPosible(cache.graph, source_id) :
                    runs' = [ runs EXCEPT
                                ![i] = SetupModel(runs[i], cache.graph, s, max_grados) ]
    /\ UNCHANGED << inputVars, stepperVars, animVars, pc, t >>

\* sim_step of model i.
StepRun(i) ==
    /\ prog = "experimento" /\ runs[i].pc = "step" /\ runs[i].running
    /\ runs' = StepOf(runs, i, G_CACHE.graph, max_grados)
    /\ UNCHANGED << inputVars, stepperVars, animVars, pc, t, G_CACHE >>

\* ------------------------------------------------------------------ runs
\* The state before the run, but for max_nodos.  The stepper calls no
\* networkx search, so its runs are listed under one kind only.
InitRun ==
    /\ prog \in { "stepper", "animacion" }
    /\ pc = IF prog = "stepper" THEN "setup" ELSE "elegir_origen"
    /\ G \in EdgeLists
    /\ source_id \in SourceIds
    /\ max_grados \in 0..MaxGrados
    /\ nx_bfs \in IF prog = "stepper" THEN { "list" } ELSE NxBfs
    /\ source = None /\ alcanzados = {} /\ frontera = {}
    /\ t = 0 /\ running = TRUE /\ log = << >>
    /\ origen = None /\ nodos_alcance = << >> /\ H = [ nodes |-> {}, edges |-> {} ]
    /\ dist = << >> /\ capas = << >>
    /\ descubiertos = {} /\ frontera_t = {} /\ edges_visibles = {}
    /\ G_CACHE = NotLoaded /\ runs = << >>

\* Run configurations with a positive cap.
Init ==
    /\ InitRun
    /\ max_nodos \in IF prog = "stepper" THEN { None } ELSE 1..MaxCap

\* Any cap, zero and negative included.
InitCap ==
    /\ InitRun
    /\ max_nodos \in IF prog = "stepper" THEN { None } ELSE (0 - 1)..MaxCap

Next == Setup \/ Step \/ ElegirOrigen \/ SubgrafoPorGrados \/ ConstruirCapas \/ DibujarFrame

Spec == Init /\ [][Next]_vars

SpecCap == InitCap /\ [][Next]_vars

\* MAX_GRADOS, the experiment's 'steps' parameter.
MAX_GRADOS == 7

\* The experiment's edge lists: in ascending order (the stepper's sets do not
\* depend on the order of a node's neighbours), the last node id unused.
ExpEdgePairs == { e \in EdgePairs : e[1] # NumNodes - 1 /\ e[2] # NumNodes - 1 }

ExpEdgeLists ==
    { Ascending(S) : S \in { X \in SUBSET ExpEdgePairs : Cardinality(X) <= MaxEdges } }

\* The experiment: NumRuns models, steps = MAX_GRADOS and no requested origin
\* (parameter_ranges), the graph not loaded yet.
InitExp ==
    /\ prog = "experimento" /\ pc = "run"
    /\ G \in ExpEdgeLists
    /\ source_id = None
    /\ max_grados = MAX_GRADOS
    /\ max_nodos = None
    /\ nx_bfs = "list"
    /\ source = None /\ alcanzados = {} /\ frontera = {}
    /\ t = 0 /\ running = TRUE /\ log = << >>
    /\ origen = None /\ nodos_alcance = << >> /\ H = [ nodes |-> {}, edges |-> {} ]
    /\ dist = << >> /\ capas = << >>
    /\ descubiertos = {} /\ frontera_t = {} /\ edges_visibles = {}
    /\ G_CACHE = NotLoaded
    /\ runs = [ i \in 1..NumRuns |-> NewModel ]

NextExp == \E i \in 1..NumRuns : SetupRun(i) \/ StepRun(i)

SpecExp == InitExp /\ [][NextExp]_vars

\* ------------------------------------------------- reference definitions
\* Shortest-path distance by its definition, from the edge set alone.
Linked(g, u, v) == << u, v >> \in Range(g) \/ << v, u >> \in Range(g)

\* The nodes joined to o by a walk of at most k edges.
RECURSIVE Within(_, _, _)
Within(g, o, k) ==
    IF k = 0 THEN { o }
    ELSE LET W == Within(g, o, k - 1)
         IN W \cup { v \in GraphNodes(g) : \E u \in W : Linked(g, u, v) }

Unreachable == NumNodes + 1

\* Within(g, o, k) for k = 0 .. NumNodes, as a tuple: B[k + 1] is the set
\* for k.  A shortest walk repeats no node, so k = NumNodes is enough.
RECURSIVE BallsUpTo(_, _, _)
BallsUpTo(g, o, k) ==
    IF k = 0 THEN << { o } >>
    ELSE LET B == BallsUpTo(g, o, k - 1)
         IN Append(B, B[k] \cup { v \in GraphNodes(g) : \E u \in B[k] : Linked(g, u, v) })

Balls(g, o) == BallsUpTo(g, o, NumNodes)

\* The hop count of v given the tuple B: the least k with v in B[k + 1].
HopIn(B, v) ==
    IF v \in B[Len(B)]
    THEN CHOOSE k \in 0..(Len(B) - 1) :
            /\ v \in B[k + 1]
            /\ \A j \in 0..(k - 1) : v \notin B[j + 1]
    ELSE Unreachable

\* The hop count from o to v: the least k with a walk of k edges.
HopCount(g, o, v) == HopIn(Balls(g, o), v)

\* The nodes at exactly k hops from o.
AtHops(g, o, k) ==
    LET B == Balls(g, o) IN { v \in GraphNodes(g) : HopIn(B, v) = k }

\* The number of edges at u.
DegreeOf(g, u) == Cardinality({ e \in Range(g) : e[1] = u \/ e[2] = u })

\* The stepper has run setup; the animation has built its layers.
StepperStarted == prog = "stepper" /\ pc \in { "step", "end" }
LayersBuilt == prog = "animacion" /\ pc \in { "animar", "frame" }
Sampled == prog = "animacion" /\ pc \in { "capas", "animar", "frame" }

\* ------------------------------------------------------------------- C1
\* C1: the origin is in layer 0 and every reached node lies in exactly one
\* layer, whose index is its shortest-path hop count from the origin: at
\* step t the stepper's frontier is the set of nodes at t hops and its
\* reached set the nodes within t hops, and construir_capas puts a node of
\* the subgraph in layer k exactly when its hop count is k; a node once
\* reached is never put in a later frontier.
C1_LayersAreHopCounts ==
    /\ [](StepperStarted =>
            /\ source \in GraphNodes(G)
            /\ t = 0 => frontera = { source }
            /\ frontera = AtHops(G, source, t)
            /\ alcanzados = Within(G, source, t))
    /\ [](LayersBuilt =>
            /\ origen \in capas[1]
            /\ Len(capas) = max_grados + 1
            /\ LET B == Balls(G, origen)
               IN \A v \in GraphNodes(G) : \A k \in 1..Len(capas) :
                    v \in capas[k] <=> (v \in H.nodes /\ HopIn(B, v) = k - 1)
            /\ \A v \in H.nodes : \E k \in 1..Len(capas) : v \in capas[k])
    /\ [][StepperStarted =>
            /\ alcanzados \subseteq alcanzados'
            /\ frontera' \cap alcanzados = {}]_vars

\* A stepper at depth 2 with a frontier: a frontier node has a neighbour
\* that was reached at an earlier depth, which step must not take again.
C1_Witness ==
    /\ StepperStarted /\ t = 2 /\ frontera # {}
    /\ \E u \in frontera : \E v \in alcanzados \ frontera : \E w \in alcanzados \ frontera :
         v # w /\ Linked(G, v, w) /\ Linked(G, u, v)

\* ------------------------------------------------------------------- C2
\* C2: at depth 0 the frontier and the discovered set are both {origin};
\* each further depth keeps what was discovered and its frontier is exactly
\* what it adds, in the stepper (alcanzados, frontera) and in the frames of
\* the animation (descubiertos, frontera), truncated subgraph or not.
C2_FrontierIsNewlyDiscovered ==
    /\ [](StepperStarted /\ t = 0 =>
            frontera = { source } /\ alcanzados = { source })
    /\ [](prog = "animacion" /\ pc = "frame" /\ t = 0 =>
            frontera_t = { origen } /\ descubiertos = { origen })
    /\ [][StepperStarted /\ t' = t + 1 =>
            /\ alcanzados \subseteq alcanzados'
            /\ frontera' = alcanzados' \ alcanzados]_vars
    /\ [][prog = "animacion" /\ pc = "frame" /\ pc' = "frame" /\ t' = t + 1 =>
            /\ descubiertos \subseteq descubiertos'
            /\ frontera_t' = descubiertos' \ descubiertos]_vars

\* The nodes within max_grados hops of the animation's origin.
Alcance == Within(G, origen, max_grados)
\* subgrafo_por_grados has cut the reached nodes down to max_nodos.
Truncated == Sampled /\ Cardinality(Alcance) > max_nodos

\* Frame 2 of a truncated subgraph, its frontier not empty.
C2_Witness ==
    /\ Truncated /\ pc = "frame" /\ t = 2
    /\ frontera_t # {} /\ descubiertos # frontera_t

\* ------------------------------------------------------------------- C3
\* C3 as claimed: a run stops at the step that finds an empty frontier,
\* takes at most maxDepth steps, and no layer follows an empty layer.
C3_NoLayerAfterEmpty ==
    /\ StepperStarted => t <= max_grados /\ (frontera = {} => pc = "end")
    /\ LayersBuilt => \A k \in 1..Len(capas) : capas[k] = {} => k = Len(capas)

\* C3, amended: the stepper stops at the step that finds an empty frontier
\* and takes no further step, and takes at most maxDepth steps; every layer
\* of construir_capas after an empty layer is empty, and so is every later
\* frame's frontier; but construir_capas always returns maxDepth + 1
\* layers, the empty ones after the first empty layer included, and one frame
\* is drawn for each.
C3_ExhaustedStaysExhausted ==
    /\ [](StepperStarted =>
            /\ t <= max_grados /\ Len(log) = t + 1
            /\ frontera = {} => (pc = "end" /\ ~running)
            /\ pc = "step" <=> running)
    /\ [][StepperStarted /\ (frontera = {} \/ t = max_grados) =>
            UNCHANGED << t, frontera, alcanzados, log >>]_vars
    /\ [](LayersBuilt =>
            /\ Len(capas) = max_grados + 1
            /\ \A j, k \in 1..Len(capas) : j < k /\ capas[j] = {} => capas[k] = {})
    /\ [][prog = "animacion" /\ pc = "frame" /\ frontera_t = {} /\ t' > t =>
            frontera_t' = {}]_vars
    /\ [][LayersBuilt => pc' = "frame" /\ t' \in 0..max_grados]_vars

\* The stepper stopped on an empty frontier before its last allowed step.
C3_Witness ==
    /\ StepperStarted /\ pc = "end" /\ frontera = {} /\ t < max_grados
    /\ Cardinality(alcanzados) >= 3

\* ------------------------------------------------------------------- C4
Min(a, b) == IF a < b THEN a ELSE b

\* C4: the sampler keeps exactly min(|reached|, cap) nodes, all of them
\* reached, none twice; all the reached nodes when they are at most cap.
C4_SampleSize ==
    Sampled =>
        /\ Len(nodos_alcance) = Min(Cardinality(Alcance), max_nodos)
        /\ Range(nodos_alcance) \subseteq Alcance
        /\ Cardinality(Range(nodos_alcance)) = Len(nodos_alcance)
        /\ Cardinality(Alcance) <= max_nodos => Range(nodos_alcance) = Alcance
        /\ H.nodes = Range(nodos_alcance)
        /\ Range(Keys(dist)) = H.nodes

\* A truncation to two or more nodes that drops at least two.
C4_Witness ==
    /\ Truncated /\ max_nodos >= 2
    /\ Cardinality(Alcance) >= max_nodos + 2
    /\ Len(nodos_alcance) = max_nodos

\* ------------------------------------------------------------------- C5
\* (distance, -degree) of u is lexicographically at most that of v.
KeyLeq(g, B, u, v) ==
    \/ HopIn(B, u) < HopIn(B, v)
    \/ HopIn(B, u) = HopIn(B, v) /\ DegreeOf(g, u) >= DegreeOf(g, v)

\* C5: when the sampler truncates, every kept node's (distance, -degree) is
\* at most that of every reached node it drops, the degree taken in G.
C5_KeptBeforeDropped ==
    Truncated =>
        LET B == Balls(G, origen)
        IN \A u \in H.nodes : \A v \in Alcance \ H.nodes : KeyLeq(G, B, u, v)

\* A truncation that keeps a node and drops a smaller-id node at the same
\* distance whose degree is lower.
C5_Witness ==
    /\ Truncated
    /\ \E u \in H.nodes : \E v \in Alcance \ H.nodes :
         /\ HopCount(G, origen, u) = HopCount(G, origen, v)
         /\ DegreeOf(G, u) > DegreeOf(G, v)
         /\ v < u

\* ------------------------------------------------------------------- C6
\* u comes before v by (distance ascending, degree descending, id ascending).
TotalBefore(g, B, u, v) ==
    \/ HopIn(B, u) < HopIn(B, v)
    \/ /\ HopIn(B, u) = HopIn(B, v)
       /\ \/ DegreeOf(g, u) > DegreeOf(g, v)
          \/ DegreeOf(g, u) = DegreeOf(g, v) /\ u < v

\* The nodes of S in that order.
RECURSIVE InTotalOrder(_, _, _)
InTotalOrder(g, B, S) ==
    IF S = {} THEN << >>
    ELSE LET u == CHOOSE x \in S : \A y \in S \ { x } : TotalBefore(g, B, x, y)
         IN << u >> \o InTotalOrder(g, B, S \ { u })

\* C6: when the sampler truncates, the selected list is the first cap
\* reached nodes by (distance, -degree, id): a function of the edge set,
\* the origin, the cutoff and the cap, whatever the order of the edge list.
C6_IdTieBreak ==
    Truncated =>
        nodos_alcance =
            SubSeq(InTotalOrder(G, Balls(G, origen), Alcance), 1, max_nodos)

\* ------------------------------------------------------------------- C7
\* An origin was requested and it is no node of the graph.
OriginRequestedAbsent == source_id # None /\ source_id \notin GraphNodes(G)

\* C7: when the requested origin is no node of the graph, no node is taken
\* as origin in its place and no distances or layers are produced.
C7_InvalidOriginSurfaced ==
    OriginRequestedAbsent =>
        /\ source = None /\ origen = None
        /\ alcanzados = {} /\ log = << >>
        /\ dist = << >> /\ capas = << >>

\* ------------------------------------------------------------------- C8
\* C8: with a cap below 1 subgrafo_por_grados returns no subgraph: the run
\* never gets past the call.
C8_InvalidCapRejected ==
    prog = "animacion" /\ max_nodos < 1 => pc \in { "elegir_origen", "subgrafo", "crashed" }

\* ------------------------------------------------------------------- C9
\* C9: the edges visible in frame t are exactly the edges of G whose two
\* ends are both selected and both within t hops of the origin; H's edges
\* are G's edges between selected nodes, the same in every frame.
C9_VisibleEdges ==
    /\ [](Sampled =>
            H.edges = { e \in Range(G) : e[1] \in Range(nodos_alcance)
                                         /\ e[2] \in Range(nodos_alcance) })
    /\ [](prog = "animacion" /\ pc = "frame" =>
            LET B == Balls(G, origen)
            IN edges_visibles =
                { e \in Range(G) :
                    /\ e[1] \in Range(nodos_alcance) /\ e[2] \in Range(nodos_alcance)
                    /\ HopIn(B, e[1]) <= t
                    /\ HopIn(B, e[2]) <= t })
    /\ [][Sampled => H' = H]_vars

\* A frame of a truncated subgraph that shows an edge and leaves out an
\* edge of G between nodes within t hops, because one end is not selected.
C9_Witness ==
    /\ Truncated /\ pc = "frame" /\ edges_visibles # {}
    /\ \E e \in Range(G) \ H.edges :
         HopCount(G, origen, e[1]) <= t /\ HopCount(G, origen, e[2]) <= t

\* ------------------------------------------------------------------ C10
\* C10: the log holds one row per depth 0, 1, ..., t in order; the row of
\* depth d counts the nodes within d hops of the origin, between 1 and the
\* number of nodes of the graph, so the fraction is in [0,1], and the count
\* never decreases; the last depth is the stop depth.
C10_MetricsRows ==
    StepperStarted =>
        /\ Len(log) = t + 1
        /\ \A i \in 1..Len(log) :
             /\ log[i].grado = i - 1
             /\ log[i].personas_conocidas = Cardinality(Within(G, source, i - 1))
             /\ 1 <= log[i].personas_conocidas
             /\ log[i].personas_conocidas <= number_of_nodes(G)
             /\ log[i].fraccion_conocida =
                    << log[i].personas_conocidas, number_of_nodes(G) >>
             /\ i > 1 => log[i - 1].personas_conocidas <= log[i].personas_conocidas
        /\ pc = "end" => (t = max_grados \/ frontera = {})
        /\ pc = "step" => (t < max_grados /\ frontera # {})

\* A finished run of three or more rows that reached the whole graph.
C10_Witness ==
    /\ StepperStarted /\ pc = "end" /\ Len(log) >= 3
    /\ log[Len(log)].personas_conocidas = number_of_nodes(G)
    /\ log[2].personas_conocidas < log[3].personas_conocidas

\* ------------------------------------------------------------------ C12
\* The hop counts from the origin inside H, by H's own edges.
BallsInH == Balls(Ascending(H.edges), origen)

\* C12: for a cap of 1 or more, H holds the origin, and every other node u
\* of H has a neighbour in H whose kept distance is dist_H[u] - 1; so every
\* node of H is joined to the origin inside H, and its hop count inside H is
\* the distance kept for it in dist_H.
C12_SubgraphKeepsShortestPaths ==
    Sampled =>
        /\ origen \in H.nodes
        /\ ValueOf(dist, origen) = 0
        /\ \A u \in H.nodes \ { origen } :
             \E v \in H.nodes :
                /\ (<< u, v >> \in H.edges \/ << v, u >> \in H.edges)
                /\ ValueOf(dist, v) = ValueOf(dist, u) - 1
        /\ LET B == BallsInH
           IN \A u \in H.nodes : HopIn(B, u) = ValueOf(dist, u)

\* A truncated subgraph that keeps a node two hops from the origin and
\* drops a reached node.
C12_Witness ==
    /\ Truncated /\ max_nodos >= 3
    /\ \E u \in H.nodes : ValueOf(dist, u) = 2

\* ------------------------------------------------------------------ C11
\* The model of a run that executes alone on graph g from origin s, after k
\* steps.
RECURSIVE Solo(_, _, _, _)
Solo(g, s, steps, k) ==
    IF k = 0 THEN SetupModel(NewModel, g, s, steps)
    ELSE StepModel(Solo(g, s, steps, k - 1), g, steps)

RunStarted(i) == runs[i].pc \in { "step", "end" }

\* Every started run is, at its depth, what the run alone would be, and its
\* frontier and discovered set are the hop-count sets of the file's graph.
RunsAsAlone ==
    prog = "experimento" =>
        \A i \in DOMAIN runs :
            RunStarted(i) =>
                /\ runs[i] = Solo(G, runs[i].source, max_grados, runs[i].t)
                /\ LET B == Balls(G, runs[i].source)
                   IN /\ runs[i].alcanzados = { v \in NodeIds : HopIn(B, v) <= runs[i].t }
                      /\ runs[i].frontera = { v \in NodeIds : HopIn(B, v) = runs[i].t }

\* C11: with several runs on one loaded graph, their setup and step calls
\* interleaved in any order, a loaded graph is the file's graph and no call
\* changes it, and every run's frontier and discovered set at each depth are
\* those of the same run executing alone.
C11_RunsDoNotInterfere ==
    /\ [](G_CACHE.loaded => G_CACHE.graph = G)
    /\ [][G_CACHE.loaded => G_CACHE' = G_CACHE]_vars
    /\ []RunsAsAlone

\* Two runs from different origins, at different depths, the frontier of one
\* inside what the other has discovered.
C11_Witness ==
    /\ prog = "experimento"
    /\ \E i, j \in DOMAIN runs :
         /\ RunStarted(i) /\ RunStarted(j)
         /\ runs[i].source # runs[j].source
         /\ runs[i].t >= 1 /\ runs[j].t > runs[i].t
         /\ runs[i].frontera # {}
         /\ runs[i].frontera \subseteq runs[j].alcanzados
         /\ runs[i].alcanzados # runs[j].alcanzados

====
